---- MODULE Spec2Model ----
(***************************************************************************)
(* Litematic browser (App): filter/sort pipeline, windowing, scroll anchor *)
(* tracking and URL/history synchronisation, modelled as a state machine.  *)
(*                                                                         *)
(* Strings are sequences of one-character strings, so that split, join,    *)
(* trim, lower-casing, number formatting and parsing are computed the way  *)
(* the code computes them.  A nullable value is a sequence of length 0     *)
(* (null) or 1 (the value).  A URLSearchParams object is a sequence of     *)
(* [k, v] pairs; its textual form is injective in that sequence, so two    *)
(* query strings are textually equal iff their pair sequences are equal.   *)
(***************************************************************************)
EXTENDS Integers, Sequences, FiniteSets, TLC

\* ------------------------------------------------------------------------
\* Nullable values and small helpers
\* ------------------------------------------------------------------------

None == << >>

Some(x) == << x >>

IsNull(o) == Len(o) = 0

Min2(a, b) == IF a <= b THEN a ELSE b

Max2(a, b) == IF a >= b THEN a ELSE b

MinOfSet(S) == CHOOSE x \in S : \A y \in S : x <= y

\* Math.floor(a / b) for a >= 0, b > 0
FloorDiv(a, b) == a \div b

\* Math.ceil(a / b) for b > 0 (a may be negative)
CeilDiv(a, b) == IF a >= 0 THEN (a + b - 1) \div b ELSE -((-a) \div b)

\* ------------------------------------------------------------------------
\* Program constants
\* ------------------------------------------------------------------------

WINDOW_SIZE == 200

BUFFER_ROWS == 3

ROW_GAP == 16

DefaultCardHeight == 360

MaxAttempts == 10

NEWEST == << "n", "e", "w", "e", "s", "t" >>

OLDEST == << "o", "l", "d", "e", "s", "t" >>

AZ == << "a", "z" >>

SortKeys == { NEWEST, OLDEST, AZ }

\* ------------------------------------------------------------------------
\* String primitives (String.prototype.trim / split / join / toLowerCase,
\* String(n), Number.parseInt)
\* ------------------------------------------------------------------------

IsSpace(c) == c = " "

IsDigit(c) == c \in { "0", "1", "2", "3", "4", "5", "6", "7", "8", "9" }

DigitVal(c) ==
  CASE c = "0" -> 0 [] c = "1" -> 1 [] c = "2" -> 2 [] c = "3" -> 3
    [] c = "4" -> 4 [] c = "5" -> 5 [] c = "6" -> 6 [] c = "7" -> 7
    [] c = "8" -> 8 [] c = "9" -> 9

DigitChar(d) ==
  CASE d = 0 -> "0" [] d = 1 -> "1" [] d = 2 -> "2" [] d = 3 -> "3"
    [] d = 4 -> "4" [] d = 5 -> "5" [] d = 6 -> "6" [] d = 7 -> "7"
    [] d = 8 -> "8" [] d = 9 -> "9"

LowerChar(c) ==
  CASE c = "A" -> "a" [] c = "B" -> "b" [] c = "C" -> "c" [] OTHER -> c

ToLowerCase(s) == [i \in 1..Len(s) |-> LowerChar(s[i])]

RECURSIVE TrimStart(_)
TrimStart(s) ==
  IF Len(s) > 0 /\ IsSpace(s[1]) THEN TrimStart(Tail(s)) ELSE s

RECURSIVE TrimEnd(_)
TrimEnd(s) ==
  IF Len(s) > 0 /\ IsSpace(s[Len(s)])
    THEN TrimEnd(SubSeq(s, 1, Len(s) - 1))
    ELSE s

Trim(s) == TrimEnd(TrimStart(s))

\* s.split(sep) for a one-character separator: always at least one piece
RECURSIVE SplitAcc(_, _, _)
SplitAcc(s, sep, cur) ==
  IF Len(s) = 0 THEN << cur >>
  ELSE IF s[1] = sep THEN << cur >> \o SplitAcc(Tail(s), sep, << >>)
  ELSE SplitAcc(Tail(s), sep, Append(cur, s[1]))

Split(s, sep) == SplitAcc(s, sep, << >>)

\* s.split(/\s+/): a run of white space is one separator
RECURSIVE SplitWsAcc(_, _, _)
SplitWsAcc(s, cur, inGap) ==
  IF Len(s) = 0 THEN << cur >>
  ELSE IF IsSpace(s[1])
    THEN IF inGap THEN SplitWsAcc(Tail(s), cur, TRUE)
         ELSE << cur >> \o SplitWsAcc(Tail(s), << >>, TRUE)
  ELSE SplitWsAcc(Tail(s), Append(cur, s[1]), FALSE)

SplitWhitespace(s) == SplitWsAcc(s, << >>, FALSE)

\* values.join(sep)
RECURSIVE Join(_, _)
Join(values, sep) ==
  IF Len(values) = 0 THEN << >>
  ELSE IF Len(values) = 1 THEN values[1]
  ELSE values[1] \o << sep >> \o Join(Tail(values), sep)

\* .filter(Boolean) on an array of strings: the empty string is falsy
FilterNonEmpty(values) == SelectSeq(values, LAMBDA v : Len(v) > 0)

\* String(n) for an integer n
RECURSIVE NatToString(_)
NatToString(n) ==
  IF n < 10 THEN << DigitChar(n) >>
  ELSE NatToString(n \div 10) \o << DigitChar(n % 10) >>

NumberToString(n) == IF n < 0 THEN << "-" >> \o NatToString(-n) ELSE NatToString(n)

RECURSIVE LeadingDigits(_)
LeadingDigits(s) ==
  IF Len(s) > 0 /\ IsDigit(s[1]) THEN << s[1] >> \o LeadingDigits(Tail(s)) ELSE << >>

RECURSIVE DigitsValue(_, _)
DigitsValue(ds, acc) ==
  IF Len(ds) = 0 THEN acc ELSE DigitsValue(Tail(ds), acc * 10 + DigitVal(ds[1]))

\* Number.parseInt(s, 10): null stands for NaN
ParseInt(s) ==
  LET t    == TrimStart(s)
      neg  == Len(t) > 0 /\ t[1] = "-"
      sgn  == Len(t) > 0 /\ t[1] \in { "-", "+" }
      body == IF sgn THEN Tail(t) ELSE t
      ds   == LeadingDigits(body)
  IN  IF Len(ds) = 0 THEN None
      ELSE Some(IF neg THEN -DigitsValue(ds, 0) ELSE DigitsValue(ds, 0))

\* hay.includes(t)
Includes(hay, t) ==
  \E i \in 0..(Len(hay) - Len(t)) : SubSeq(hay, i + 1, i + Len(t)) = t

\* ------------------------------------------------------------------------
\* URLSearchParams
\* ------------------------------------------------------------------------

\* sp.get(key): the first value of the key, or null
ParamGet(sp, key) ==
  LET hits == { i \in 1..Len(sp) : sp[i].k = key }
  IN  IF hits = {} THEN None ELSE Some(sp[MinOfSet(hits)].v)

\* params.set(key, value)
ParamSet(sp, key, value) ==
  LET hits == { i \in 1..Len(sp) : sp[i].k = key }
  IN  IF hits = {} THEN Append(sp, [k |-> key, v |-> value])
      ELSE LET first == MinOfSet(hits)
           IN  SelectSeq([i \in 1..Len(sp) |->
                            IF i = first THEN [k |-> key, v |-> value, keep |-> TRUE]
                            ELSE [k |-> sp[i].k, v |-> sp[i].v, keep |-> sp[i].k # key]],
                         LAMBDA p : p.keep)

\* ------------------------------------------------------------------------
\* parseListParam / listToParam
\* ------------------------------------------------------------------------

\* .map((s) => s.trim())
TrimAll(parts) == [i \in 1..Len(parts) |-> Trim(parts[i])]

parseListParam(raw) ==
  IF IsNull(raw) \/ Len(raw[1]) = 0 THEN << >>
  ELSE FilterNonEmpty(TrimAll(Split(raw[1], ",")))

listToParam(values) ==
  IF Len(values) = 0 THEN None ELSE Some(Join(values, ","))

\* ------------------------------------------------------------------------
\* Catalog: the JSON document the fetch returns, and its normalisation
\* ------------------------------------------------------------------------

RawEntry(file, author, version, size, timeCreated, hasImage) ==
  [file |-> file, author |-> author, version |-> version, size |-> size,
   timeCreated |-> timeCreated, has_image |-> hasImage]

\* The document served as litematics-processed.json in this model: ten
\* entries, two of which contain the letter b (one in upper case).
CatalogJson ==
  << RawEntry(<< "B", "a" >>, << "x" >>, << "1" >>, << "s" >>, << "2", "0", "0" >>, TRUE),
     RawEntry(<< "b" >>, << "y" >>, << "2" >>, << "s" >>, << "1", "0", "0" >>, FALSE),
     RawEntry(<< "c" >>, << "x" >>, << "1" >>, << "s" >>, << "3", "0", "0" >>, TRUE),
     RawEntry(<< "d" >>, << "x" >>, << "1" >>, << "s" >>, << "?" >>, FALSE),
     RawEntry(<< "e" >>, << "x" >>, << "1" >>, << "s" >>, << "5", "0" >>, FALSE),
     RawEntry(<< "f" >>, << "x" >>, << "1" >>, << "s" >>, << "6", "0" >>, FALSE),
     RawEntry(<< "g" >>, << "x" >>, << "1" >>, << "s" >>, << "7", "0" >>, FALSE),
     RawEntry(<< "h" >>, << "x" >>, << "1" >>, << "s" >>, << "8", "0" >>, FALSE),
     RawEntry(<< "i" >>, << "x" >>, << "1" >>, << "s" >>, << "9", "0" >>, FALSE),
     RawEntry(<< "j" >>, << "x" >>, << "1" >>, << "s" >>, << "9", "5" >>, FALSE) >>

\* id: `${entry.file}-${idx}` with idx the 0-based position in load order
EntryId(file, idx) == file \o << "-" >> \o NumberToString(idx)

\* load(): the map over json.entries
Normalize(json) ==
  [i \in 1..Len(json) |->
     LET e       == json[i]
         created == ParseInt(e.timeCreated)
     IN  [file       |-> e.file,
          author     |-> e.author,
          version    |-> e.version,
          size       |-> e.size,
          id         |-> EntryId(e.file, i - 1),
          createdAt  |-> IF IsNull(created) THEN 0 ELSE created[1],
          renderPath |-> IF e.has_image THEN Some(e.file) ELSE None]]

\* ------------------------------------------------------------------------
\* Filter / sort pipeline
\* ------------------------------------------------------------------------

SeqToSet(s) == { s[i] : i \in 1..Len(s) }

\* useMemo: q.toLowerCase().split(/\s+/).filter(Boolean)
SearchTerms(qText) == FilterNonEmpty(SplitWhitespace(ToLowerCase(qText)))

matchesSearch(entry, terms) ==
  IF Len(terms) = 0 THEN TRUE
  ELSE LET hay == ToLowerCase(entry.file \o << " " >> \o entry.author \o << " " >>
                              \o entry.version \o << " " >> \o entry.size)
       IN  \A i \in 1..Len(terms) : Includes(hay, terms[i])

\* the filter with the include lists looked at before the exclude lists
PassesFilter_IncludeFirst(entry, qText, vInc, vExc, aInc, aExc) ==
  IF Len(vInc) > 0 /\ entry.version \in SeqToSet(vInc) THEN matchesSearch(entry, SearchTerms(qText))
  ELSE IF Len(aInc) > 0 /\ entry.author \in SeqToSet(aInc) THEN matchesSearch(entry, SearchTerms(qText))
  ELSE IF Len(vInc) > 0 \/ Len(aInc) > 0 THEN FALSE
  ELSE IF Len(vExc) > 0 /\ entry.version \in SeqToSet(vExc) THEN FALSE
  ELSE IF Len(aExc) > 0 /\ entry.author \in SeqToSet(aExc) THEN FALSE
  ELSE matchesSearch(entry, SearchTerms(qText))

\* the predicate of entries.filter(...) in `filtered`; an empty list is a null set
PassesFilter(entry, qText, vInc, vExc, aInc, aExc) ==
  IF Len(vExc) > 0 /\ entry.version \in SeqToSet(vExc) THEN FALSE
  ELSE IF Len(aExc) > 0 /\ entry.author \in SeqToSet(aExc) THEN FALSE
  ELSE IF Len(vInc) > 0 /\ entry.version \notin SeqToSet(vInc) THEN FALSE
  ELSE IF Len(aInc) > 0 /\ entry.author \notin SeqToSet(aInc) THEN FALSE
  ELSE matchesSearch(entry, SearchTerms(qText))

\* versionPreviewList: the filter without the version include list
versionPreviewList(ents, qText, vExc, aInc, aExc) ==
  SelectSeq(ents, LAMBDA e : PassesFilter(e, qText, << >>, vExc, aInc, aExc))

\* authorPreviewList: the filter without the author include list
authorPreviewList(ents, qText, vInc, vExc, aExc) ==
  SelectSeq(ents, LAMBDA e : PassesFilter(e, qText, vInc, vExc, << >>, aExc))

\* filteredVersionCounts[v] || 0, the count of the option v
versionOptionCount(c, v) ==
  Cardinality({ i \in 1..Len(versionPreviewList(c.entries, c.q, c.versionExcludes,
                                                 c.authorIncludes, c.authorExcludes)) :
                  versionPreviewList(c.entries, c.q, c.versionExcludes,
                                     c.authorIncludes, c.authorExcludes)[i].version = v })

\* filteredAuthorCounts[a] || 0, the count of the option a
authorOptionCount(c, a) ==
  Cardinality({ i \in 1..Len(authorPreviewList(c.entries, c.q, c.versionIncludes,
                                                c.versionExcludes, c.authorExcludes)) :
                  authorPreviewList(c.entries, c.q, c.versionIncludes,
                                    c.versionExcludes, c.authorExcludes)[i].author = a })

\* collation order of the characters used by the model
CharRank(c) ==
  CASE c = " " -> 0 [] c = "," -> 1 [] c = "-" -> 2 [] c = "." -> 3 [] c = "?" -> 4
    [] IsDigit(c) -> 5 + DigitVal(c)
    [] c = "a" -> 20 [] c = "b" -> 21 [] c = "c" -> 22 [] c = "d" -> 23
    [] c = "e" -> 24 [] c = "f" -> 25 [] c = "g" -> 26 [] c = "h" -> 27
    [] c = "i" -> 28 [] c = "j" -> 29
    [] OTHER -> 40

\* a.localeCompare(b, undefined, { sensitivity: "base" }): sign of the comparison
RECURSIVE CompareLower(_, _)
CompareLower(a, b) ==
  IF Len(a) = 0 /\ Len(b) = 0 THEN 0
  ELSE IF Len(a) = 0 THEN -1
  ELSE IF Len(b) = 0 THEN 1
  ELSE IF CharRank(a[1]) < CharRank(b[1]) THEN -1
  ELSE IF CharRank(a[1]) > CharRank(b[1]) THEN 1
  ELSE CompareLower(Tail(a), Tail(b))

localeCompareBase(a, b) == CompareLower(ToLowerCase(a), ToLowerCase(b))

\* the comparator with the default order ascending, as for oldest
SortCompare_Ascending(a, b, key) ==
  IF key = AZ THEN localeCompareBase(a.file, b.file)
  ELSE a.createdAt - b.createdAt

\* the comparator of [...list].sort(...)
SortCompare(a, b, key) ==
  IF key = OLDEST THEN a.createdAt - b.createdAt
  ELSE IF key = AZ THEN localeCompareBase(a.file, b.file)
  ELSE b.createdAt - a.createdAt

\* Array.prototype.sort is stable: x goes after every element that does not
\* compare greater than it
RECURSIVE InsertSorted(_, _, _)
InsertSorted(sorted, x, key) ==
  IF Len(sorted) = 0 THEN << x >>
  ELSE IF SortCompare(sorted[Len(sorted)], x, key) <= 0 THEN Append(sorted, x)
  ELSE Append(InsertSorted(SubSeq(sorted, 1, Len(sorted) - 1), x, key), sorted[Len(sorted)])

RECURSIVE SortBy(_, _, _)
SortBy(list, key, acc) ==
  IF Len(list) = 0 THEN acc
  ELSE SortBy(Tail(list), key, InsertSorted(acc, list[1], key))

\* the `filtered` memo: filter, then sort the filtered result
Filtered(ents, qText, vInc, vExc, aInc, aExc, key) ==
  SortBy(SelectSeq(ents, LAMBDA e : PassesFilter(e, qText, vInc, vExc, aInc, aExc)),
         key, << >>)

\* ------------------------------------------------------------------------
\* Layout helpers
\* ------------------------------------------------------------------------

getCols(w) ==
  IF w >= 1536 THEN 4
  ELSE IF w >= 1280 THEN 3
  ELSE IF w >= 640 THEN 2
  ELSE 1

\* useMemo: (measuredCardHeight || 360) + ROW_GAP
ApproxRowHeight(measured) ==
  (IF IsNull(measured) \/ measured[1] = 0 THEN DefaultCardHeight ELSE measured[1]) + ROW_GAP

WindowEnd(len, start) == Min2(len, start + WINDOW_SIZE)

\* filtered.slice(windowStart, windowEnd)
Slice(s, from, to) ==
  LET f == Min2(from, Len(s))
      t == Min2(to, Len(s))
  IN  IF t <= f THEN << >> ELSE SubSeq(s, f + 1, t)

TopRows(start, c) == FloorDiv(start, c)

BottomRows(len, wEnd, c) == CeilDiv(len - wEnd, c)

TopSpacer(start, c, h) == Max2(0, TopRows(start, c) * h)

BottomSpacer(len, wEnd, c, h) == Max2(0, BottomRows(len, wEnd, c) * h)

\* ------------------------------------------------------------------------
\* Bounds of the model and the environment the page runs in
\* ------------------------------------------------------------------------

\* user and browser events (typing, clicks, scrolls, resizes, back/forward) in a run
MaxEvents == 3

\* scroll offsets the user can reach: 0, ScrollStep, ..., MaxScrollSteps * ScrollStep
MaxScrollSteps == 2

ScrollStep == 2000

\* getHeaderOffset(): height of the sticky header plus 8
HeaderOffset == 80

\* document offset of the top of the grid container, when it is rendered
GridTop == 140

\* getBoundingClientRect().height of a rendered card
CardHeight == 400

\* window.innerWidth when the page opens, and the widths a resize can give
InitialWidth == 500

Widths == { 500, 700 }

SCROLL_PARAM_KEY == "idx"

Param(key, value) == [k |-> key, v |-> value]

\* window.location.search when the page is opened
InitialUrls ==
  { << >>,
    << Param("q", << "b" >>), Param(SCROLL_PARAM_KEY, << "1" >>) >>,
    << Param(SCROLL_PARAM_KEY, << "3" >>) >>,
    << Param(SCROLL_PARAM_KEY, << "8" >>) >> }

\* texts the user can type into the search box
SearchInputs == { << >>, << "b" >> }

ListNames == { "vInc", "vExc", "aInc", "aExc" }

\* ------------------------------------------------------------------------
\* asyncPool (Utils.ts): a pool of workers that share one index
\* ------------------------------------------------------------------------

\* One invocation of asyncPool.  items, results, calls and called are indexed
\* from 1 where the code indexes from 0; i and cur keep the code's values.
\* calls[j] is the promise fn returned for index j - 1 ("none" before the
\* call) and called[j] the number of calls of fn for it; a worker is the
\* promise of one work() with the index it awaits.
PoolIdle ==
  [status |-> "idle", limit |-> 0, items |-> << >>, results |-> << >>,
   i |-> 0, workers |-> << >>, calls |-> << >>, called |-> << >>]

\* the value fn's promise is fulfilled with: it tells the item and the index
fn(item, idx) == << item, idx >>

\* the head of the while loop of work(), run by worker k up to its next await
workLoop(p, k) ==
  IF p.i < Len(p.items)
    THEN [p EXCEPT !.i = p.i + 1,
                   !.calls[p.i + 1] = "pending",
                   !.called[p.i + 1] = @ + 1,
                   !.workers[k] = [state |-> "awaiting", cur |-> p.i]]
    ELSE [p EXCEPT !.workers[k].state = "fulfilled"]

\* workers.push(work()): the call runs work() up to its first await
work(p) ==
  workLoop([p EXCEPT !.workers = Append(@, [state |-> "awaiting", cur |-> -1])],
           Len(p.workers) + 1)

\* worker k after its await: a rejection ends the worker, a value is stored
\* and the loop goes on
workResume(p, k) ==
  IF p.calls[p.workers[k].cur + 1] = "rejected"
    THEN [p EXCEPT !.workers[k].state = "rejected"]
    ELSE workLoop([p EXCEPT !.results[p.workers[k].cur + 1] =
                              Some(fn(p.items[p.workers[k].cur + 1], p.workers[k].cur))],
                  k)

\* as many workers as there are items
WorkerCount_Uncapped(limit, n) == Max2(1, n)

\* the number of workers started
WorkerCount(limit, n) == Max2(1, Min2(limit, n))

RECURSIVE spawn(_, _)
spawn(p, k) == IF k = 0 THEN p ELSE spawn(work(p), k - 1)

\* asyncPool up to its await of the workers
asyncPool(limit, items) ==
  spawn([PoolIdle EXCEPT
           !.status = "running", !.limit = limit, !.items = items,
           !.results = [j \in 1..Len(items) |-> None],
           !.calls = [j \in 1..Len(items) |-> "none"],
           !.called = [j \in 1..Len(items) |-> 0]],
        WorkerCount(limit, Len(items)))

\* ------------------------------------------------------------------------
\* State
\* ------------------------------------------------------------------------

VARIABLES
  entries, loading, error, q,
  versionIncludes, versionExcludes, authorIncludes, authorExcludes,
  sortKey, preview, windowStart, measuredCardHeight, cols, anchorIndex,
  pendingPreviewId, pendingIndex, pendingScrollId, restoringRef, lastPushedParams,
  history, hpos, scrollY, innerWidth, timer0, timer50, rafQueue, fetchState,
  mounted, cancelled, renderPending, touched, rendered, phase, events,
  lastEvent, pendingEvent, writers, lastWrites, step, pool

vars ==
  << entries, loading, error, q,
     versionIncludes, versionExcludes, authorIncludes, authorExcludes,
     sortKey, preview, windowStart, measuredCardHeight, cols, anchorIndex,
     pendingPreviewId, pendingIndex, pendingScrollId, restoringRef, lastPushedParams,
     history, hpos, scrollY, innerWidth, timer0, timer50, rafQueue, fetchState,
     mounted, cancelled, renderPending, touched, rendered, phase, events,
     lastEvent, pendingEvent, writers, lastWrites, step, pool >>

\* the page, without the pool of Utils.ts
pageVars ==
  << entries, loading, error, q,
     versionIncludes, versionExcludes, authorIncludes, authorExcludes,
     sortKey, preview, windowStart, measuredCardHeight, cols, anchorIndex,
     pendingPreviewId, pendingIndex, pendingScrollId, restoringRef, lastPushedParams,
     history, hpos, scrollY, innerWidth, timer0, timer50, rafQueue, fetchState,
     mounted, cancelled, renderPending, touched, rendered, phase, events,
     lastEvent, pendingEvent, writers, lastWrites, step >>

\* The mutable context a handler works on: the queued React state, the refs,
\* the browser (history, scroll offset, timers, frame callbacks), and the
\* observers: phase (the restoration state machine), lastEvent / pendingEvent
\* (the last user event, and whether its render is still to be committed),
\* writers (who called setAnchorIndex / setWindowStart in this step) and
\* lastWrites (the last two query strings given to pushState / replaceState),
\* step (which of a commit and an animation frame came last, a second one
\* in a row being told from the first).
Ctx ==
  [entries |-> entries, loading |-> loading, error |-> error, q |-> q,
   versionIncludes |-> versionIncludes, versionExcludes |-> versionExcludes,
   authorIncludes |-> authorIncludes, authorExcludes |-> authorExcludes,
   sortKey |-> sortKey, preview |-> preview, windowStart |-> windowStart,
   measuredCardHeight |-> measuredCardHeight, cols |-> cols, anchorIndex |-> anchorIndex,
   pendingPreviewId |-> pendingPreviewId, pendingIndex |-> pendingIndex,
   pendingScrollId |-> pendingScrollId, restoringRef |-> restoringRef,
   lastPushedParams |-> lastPushedParams,
   history |-> history, hpos |-> hpos, scrollY |-> scrollY, innerWidth |-> innerWidth,
   timer0 |-> timer0, timer50 |-> timer50, rafQueue |-> rafQueue,
   fetchState |-> fetchState, mounted |-> mounted, cancelled |-> cancelled,
   renderPending |-> renderPending,
   touched |-> touched, rendered |-> rendered, phase |-> phase, events |-> events,
   lastEvent |-> lastEvent, pendingEvent |-> pendingEvent, writers |-> {},
   lastWrites |-> lastWrites, step |-> step]

\* a setState call that changes a value (or stores a new array) schedules a render
StateChanged(c) ==
  \/ c.entries # entries \/ c.loading # loading \/ c.error # error \/ c.q # q
  \/ c.versionIncludes # versionIncludes \/ c.versionExcludes # versionExcludes
  \/ c.authorIncludes # authorIncludes \/ c.authorExcludes # authorExcludes
  \/ c.sortKey # sortKey \/ c.preview # preview \/ c.windowStart # windowStart
  \/ c.measuredCardHeight # measuredCardHeight \/ c.cols # cols
  \/ c.anchorIndex # anchorIndex
  \/ c.touched # {}

Apply(c) ==
  /\ entries' = c.entries
  /\ loading' = c.loading
  /\ error' = c.error
  /\ q' = c.q
  /\ versionIncludes' = c.versionIncludes
  /\ versionExcludes' = c.versionExcludes
  /\ authorIncludes' = c.authorIncludes
  /\ authorExcludes' = c.authorExcludes
  /\ sortKey' = c.sortKey
  /\ preview' = c.preview
  /\ windowStart' = c.windowStart
  /\ measuredCardHeight' = c.measuredCardHeight
  /\ cols' = c.cols
  /\ anchorIndex' = c.anchorIndex
  /\ pendingPreviewId' = c.pendingPreviewId
  /\ pendingIndex' = c.pendingIndex
  /\ pendingScrollId' = c.pendingScrollId
  /\ restoringRef' = c.restoringRef
  /\ lastPushedParams' = c.lastPushedParams
  /\ history' = c.history
  /\ hpos' = c.hpos
  /\ scrollY' = c.scrollY
  /\ innerWidth' = c.innerWidth
  /\ timer0' = c.timer0
  /\ timer50' = c.timer50
  /\ rafQueue' = c.rafQueue
  /\ fetchState' = c.fetchState
  /\ mounted' = c.mounted
  /\ cancelled' = c.cancelled
  /\ renderPending' = (c.renderPending \/ StateChanged(c))
  /\ touched' = c.touched
  /\ rendered' = c.rendered
  /\ phase' = c.phase
  /\ events' = c.events
  /\ lastEvent' = c.lastEvent
  /\ pendingEvent' = c.pendingEvent
  /\ writers' = c.writers
  /\ lastWrites' = c.lastWrites
  /\ step' = c.step
  /\ pool' = pool

\* what is on screen before the first render
EmptyDom ==
  [q |-> << >>, sortKey |-> NEWEST, previewId |-> None, len |-> 0,
   cols |-> getCols(InitialWidth), approxRowHeight |-> ApproxRowHeight(None),
   windowStart |-> 0, windowEnd |-> 0,
   listEmpty |-> [n \in ListNames |-> TRUE],
   grid |-> FALSE, ids |-> << >>, topSpacer |-> 0, bottomSpacer |-> 0]

\* the page as constructed, opened at one of the given URLs
InitAt(urls) ==
  /\ entries = << >>
  /\ loading = TRUE
  /\ error = None
  /\ q = << >>
  /\ versionIncludes = << >>
  /\ versionExcludes = << >>
  /\ authorIncludes = << >>
  /\ authorExcludes = << >>
  /\ sortKey = NEWEST
  /\ preview = None
  /\ windowStart = 0
  /\ measuredCardHeight = None
  /\ cols = getCols(InitialWidth)
  /\ anchorIndex = 0
  /\ pendingPreviewId = None
  /\ pendingIndex = None
  /\ pendingScrollId = None
  /\ restoringRef = FALSE
  /\ lastPushedParams = << >>
  /\ \E url \in urls : history = << url >>
  /\ hpos = 1
  /\ scrollY = 0
  /\ innerWidth = InitialWidth
  /\ timer0 = 0
  /\ timer50 = 0
  /\ rafQueue = << >>
  /\ fetchState = "idle"
  /\ mounted = FALSE
  /\ cancelled = FALSE
  /\ renderPending = FALSE
  /\ touched = {}
  /\ rendered = EmptyDom
  /\ phase = "Idle"
  /\ events = 0
  /\ lastEvent = "none"
  /\ pendingEvent = "none"
  /\ writers = {}
  /\ lastWrites = << >>
  /\ step = "other"
  /\ pool = PoolIdle

Init == InitAt(InitialUrls)

\* ------------------------------------------------------------------------
\* Render: the values one render of App computes from the state
\* ------------------------------------------------------------------------

PreviewId(pv) == IF IsNull(pv) THEN None ELSE Some(pv[1].id)

ListOf(c, n) ==
  CASE n = "vInc" -> c.versionIncludes
    [] n = "vExc" -> c.versionExcludes
    [] n = "aInc" -> c.authorIncludes
    [] n = "aExc" -> c.authorExcludes

\* the values handleScroll and buildParams close over
Closure(c) ==
  [q |-> c.q, sortKey |-> c.sortKey,
   versionIncludes |-> c.versionIncludes, versionExcludes |-> c.versionExcludes,
   authorIncludes |-> c.authorIncludes, authorExcludes |-> c.authorExcludes,
   preview |-> c.preview, anchorIndex |-> c.anchorIndex, cols |-> c.cols,
   approxRowHeight |-> ApproxRowHeight(c.measuredCardHeight)]

RenderWith(c, filtered, wEnd) ==
  [q |-> c.q, sortKey |-> c.sortKey,
   versionIncludes |-> c.versionIncludes, versionExcludes |-> c.versionExcludes,
   authorIncludes |-> c.authorIncludes, authorExcludes |-> c.authorExcludes,
   preview |-> c.preview, anchorIndex |-> c.anchorIndex, cols |-> c.cols,
   approxRowHeight |-> ApproxRowHeight(c.measuredCardHeight),
   entries |-> c.entries, loading |-> c.loading,
   filtered |-> filtered, len |-> Len(filtered),
   windowStart |-> c.windowStart, windowEnd |-> wEnd,
   visible |-> Slice(filtered, c.windowStart, wEnd)]

ViewOf(c) ==
  Filtered(c.entries, c.q, c.versionIncludes, c.versionExcludes,
           c.authorIncludes, c.authorExcludes, c.sortKey)

RenderView(c, filtered) == RenderWith(c, filtered, WindowEnd(Len(filtered), c.windowStart))

Render(c) == RenderView(c, ViewOf(c))

\* what the commit of a render puts on screen, with the dependency values the
\* next commit compares against
Snapshot(r) ==
  [q |-> r.q, sortKey |-> r.sortKey, previewId |-> PreviewId(r.preview),
   len |-> r.len, cols |-> r.cols, approxRowHeight |-> r.approxRowHeight,
   windowStart |-> r.windowStart, windowEnd |-> r.windowEnd,
   listEmpty |-> [n \in ListNames |-> Len(ListOf(r, n)) = 0],
   grid |-> (~r.loading /\ r.len > 0),
   ids |-> IF ~r.loading /\ r.len > 0
             THEN [i \in 1..Len(r.visible) |-> r.visible[i].id] ELSE << >>,
   topSpacer |-> TopSpacer(r.windowStart, r.cols, r.approxRowHeight),
   bottomSpacer |-> BottomSpacer(r.len, r.windowEnd, r.cols, r.approxRowHeight)]

\* ------------------------------------------------------------------------
\* The browser: document geometry, scrolling, history
\* ------------------------------------------------------------------------

GridHeight(dom) ==
  dom.topSpacer + CeilDiv(Len(dom.ids), dom.cols) * (CardHeight + ROW_GAP) + dom.bottomSpacer

\* the largest scroll offset the document allows: the bottom of the grid can be
\* brought up to the bottom edge of the header, no further
MaxScrollY(dom) ==
  IF dom.grid THEN Max2(0, GridTop - HeaderOffset + GridHeight(dom)) ELSE 0

\* window.scrollTo({ top })
ScrollTo(c, top) == [c EXCEPT !.scrollY = Min2(Max2(0, top), MaxScrollY(c.rendered))]

\* el.getBoundingClientRect().top + window.scrollY for the card at 1-based
\* position pos of the materialized slice
CardTop(dom, pos) ==
  GridTop + dom.topSpacer + FloorDiv(pos - 1, dom.cols) * (CardHeight + ROW_GAP)

\* the last two query strings written, oldest first
Logged(log, qs) == IF Len(log) < 2 THEN Append(log, qs) ELSE << log[2], qs >>

\* window.history.pushState: entries after the current one are dropped
PushState(c, qs) ==
  [c EXCEPT !.history = Append(SubSeq(c.history, 1, c.hpos), qs),
            !.hpos = c.hpos + 1,
            !.lastWrites = Logged(@, qs)]

\* window.history.replaceState
ReplaceState(c, qs) ==
  [c EXCEPT !.history[c.hpos] = qs, !.lastWrites = Logged(@, qs)]

\* ------------------------------------------------------------------------
\* Navigation state codec
\* ------------------------------------------------------------------------

Truthy(o) == ~IsNull(o) /\ Len(o[1]) > 0

\* if (value) params.set(key, value), for a nullable string value
SetIfTruthy(sp, key, value) ==
  IF Truthy(value) THEN ParamSet(sp, key, value[1]) ELSE sp

\* buildParams testing q in the place of q.trim()
SetSearchParam_Untrimmed(sp, qText) ==
  IF Len(qText) > 0 THEN ParamSet(sp, "q", qText) ELSE sp

\* if (q.trim()) params.set("q", q)
SetSearchParam(sp, qText) ==
  IF Len(Trim(qText)) > 0 THEN ParamSet(sp, "q", qText) ELSE sp

\* if (sortKey !== "newest") params.set("sort", sortKey)
SetSortParam(sp, key) ==
  IF key # NEWEST THEN ParamSet(sp, "sort", key) ELSE sp

buildParams(r, idxVal) ==
  ParamSet(
    SetIfTruthy(
      SetIfTruthy(
        SetIfTruthy(
          SetIfTruthy(
            SetIfTruthy(
              SetSortParam(SetSearchParam(<< >>, r.q), r.sortKey),
              "vInc", listToParam(r.versionIncludes)),
            "vExc", listToParam(r.versionExcludes)),
          "aInc", listToParam(r.authorIncludes)),
        "aExc", listToParam(r.authorExcludes)),
      "preview", PreviewId(r.preview)),
    SCROLL_PARAM_KEY, NumberToString(Max2(0, idxVal)))

\* scrollVal ? Number.parseInt(scrollVal, 10) || 0 : null
\* n || 0 for the result of parseInt
OrZero(n) == IF IsNull(n) THEN 0 ELSE n[1]

DecodeIndex(scrollVal) ==
  IF ~Truthy(scrollVal) THEN None ELSE Some(OrZero(ParseInt(scrollVal[1])))

\* sortParam recognised ? setSortKey(sortParam) : nothing
DecodeSort(sortParam, current) ==
  IF ~IsNull(sortParam) /\ sortParam[1] \in SortKeys THEN sortParam[1] ELSE current

\* sp.get("q") || ""
DecodeSearch(qv) == IF Truthy(qv) THEN qv[1] ELSE << >>

\* applyParams without restoringRef.current = true
applyParams_Unflagged(c, sp) ==
  [c EXCEPT
    !.restoringRef = c.restoringRef,
    !.q = DecodeSearch(ParamGet(sp, "q")),
    !.sortKey = DecodeSort(ParamGet(sp, "sort"), c.sortKey),
    !.versionIncludes = parseListParam(ParamGet(sp, "vInc")),
    !.versionExcludes = parseListParam(ParamGet(sp, "vExc")),
    !.authorIncludes = parseListParam(ParamGet(sp, "aInc")),
    !.authorExcludes = parseListParam(ParamGet(sp, "aExc")),
    !.touched = c.touched \cup ListNames,
    !.pendingPreviewId = ParamGet(sp, "preview"),
    !.pendingIndex = DecodeIndex(ParamGet(sp, SCROLL_PARAM_KEY)),
    !.timer0 = c.timer0 + 1,
    !.phase = IF IsNull(DecodeIndex(ParamGet(sp, SCROLL_PARAM_KEY)))
                THEN "Idle" ELSE "Restoring"]

applyParams(c, sp) ==
  [c EXCEPT
    !.restoringRef = TRUE,
    !.q = DecodeSearch(ParamGet(sp, "q")),
    !.sortKey = DecodeSort(ParamGet(sp, "sort"), c.sortKey),
    !.versionIncludes = parseListParam(ParamGet(sp, "vInc")),
    !.versionExcludes = parseListParam(ParamGet(sp, "vExc")),
    !.authorIncludes = parseListParam(ParamGet(sp, "aInc")),
    !.authorExcludes = parseListParam(ParamGet(sp, "aExc")),
    !.touched = c.touched \cup ListNames,
    !.pendingPreviewId = ParamGet(sp, "preview"),
    !.pendingIndex = DecodeIndex(ParamGet(sp, SCROLL_PARAM_KEY)),
    !.timer0 = c.timer0 + 1,
    !.phase = IF IsNull(DecodeIndex(ParamGet(sp, SCROLL_PARAM_KEY)))
                THEN "Idle" ELSE "Restoring"]

\* ------------------------------------------------------------------------
\* Effects, in the order App declares them
\* ------------------------------------------------------------------------

\* load(): the fetch is started
loadEffect(c) == [c EXCEPT !.fetchState = "pending"]

FindPreview(ents, id) ==
  LET hits == { i \in 1..Len(ents) : ents[i].id = id \/ ents[i].file = id }
  IN  IF hits = {} THEN None ELSE Some(ents[MinOfSet(hits)])

\* the pending id cleared only when an entry matches
SetPreviewIfFound_KeepsMiss(c, match) ==
  IF IsNull(match) THEN c ELSE [c EXCEPT !.preview = match, !.pendingPreviewId = None]

\* if (match) setPreview(match)
SetPreviewIfFound(c, match) ==
  [c EXCEPT !.preview = IF IsNull(match) THEN @ ELSE match, !.pendingPreviewId = None]

pendingPreviewEffect(c, r) ==
  IF Truthy(c.pendingPreviewId) /\ Len(r.entries) > 0
    THEN SetPreviewIfFound(c, FindPreview(r.entries, c.pendingPreviewId[1]))
    ELSE c

\* if (qs === lastPushedParamsRef.current) return; ...; pushState
pushUnlessSame(c, qs) ==
  IF qs = c.lastPushedParams THEN c
  ELSE PushState([c EXCEPT !.lastPushedParams = qs], qs)

pushEffect(c, r) ==
  IF c.restoringRef THEN c ELSE pushUnlessSame(c, buildParams(r, r.anchorIndex))

\* the reset effect without the test of pendingIndex
resetEffect_Unconditional(c, r) ==
  [c EXCEPT !.windowStart = 0, !.anchorIndex = 0, !.writers = @ \cup { "reset" }]

resetEffect(c, r) ==
  IF ~IsNull(c.pendingIndex) THEN c
  ELSE [c EXCEPT !.windowStart = 0, !.anchorIndex = 0, !.writers = @ \cup { "reset" }]

clampEffect(c, r) ==
  [c EXCEPT !.windowStart = Min2(c.windowStart, Max2(0, r.len - 1)),
            !.writers = @ \cup { "clamp" }]

\* the anchor handleScroll derives from the scroll offset
ScrollAnchor(y, dom, r) ==
  LET gridTop   == IF dom.grid THEN GridTop ELSE 0
      rel       == Max2(0, y + HeaderOffset - gridTop)
      row       == FloorDiv(rel, r.approxRowHeight)
      withinRow == rel - row * r.approxRowHeight
      anchorRow == IF 2 * withinRow > r.approxRowHeight THEN row + 1 ELSE row
  IN  Max2(0, anchorRow * r.cols)

\* handleScroll with pushState in the place of replaceState
replaceUnlessSame_Pushing(c, qs) ==
  IF qs # c.lastPushedParams
    THEN PushState([c EXCEPT !.lastPushedParams = qs], qs)
    ELSE c

\* handleScroll without the comparison with lastPushedParamsRef
replaceUnlessSame_Always(c, qs) ==
  ReplaceState([c EXCEPT !.lastPushedParams = qs], qs)

\* handleScroll without the assignment to lastPushedParamsRef
replaceUnlessSame_Forgetful(c, qs) ==
  IF qs # c.lastPushedParams THEN ReplaceState(c, qs) ELSE c

\* if (qs !== lastPushedParamsRef.current) { ...; replaceState }
replaceUnlessSame(c, qs) ==
  IF qs # c.lastPushedParams
    THEN ReplaceState([c EXCEPT !.lastPushedParams = qs], qs)
    ELSE c

\* the window started BUFFER_ROWS rows after the anchor
WindowStartFor_Ahead(anchor, c) == Max2(0, anchor + BUFFER_ROWS * c)

\* Math.max(0, anchor - BUFFER_ROWS * cols), of handleScroll and of the
\* restoration effect
WindowStartFor(anchor, c) == Max2(0, anchor - BUFFER_ROWS * c)

scrollTo(c, r, anchor) ==
  replaceUnlessSame(
    [c EXCEPT !.anchorIndex = anchor,
              !.windowStart = WindowStartFor(anchor, r.cols),
              !.writers = @ \cup { "scroll" }],
    buildParams(r, anchor))

handleScroll(c, r) ==
  IF c.restoringRef THEN c ELSE scrollTo(c, r, ScrollAnchor(c.scrollY, c.rendered, r))

restoreTo(c, r, idx) ==
  IF idx = 0
    THEN [c EXCEPT !.pendingIndex = None,
                   !.restoringRef = TRUE,
                   !.rafQueue = Append(@, [kind |-> "top"])]
    ELSE [c EXCEPT !.anchorIndex = idx,
                   !.windowStart = WindowStartFor(idx, r.cols),
                   !.pendingScrollId = Some(r.filtered[idx + 1].id),
                   !.pendingIndex = None,
                   !.restoringRef = TRUE,
                   !.phase = "Locating",
                   !.writers = @ \cup { "restore" }]

restorationEffect(c, r) ==
  IF IsNull(c.pendingIndex) \/ r.len = 0 THEN c
  ELSE restoreTo(c, r, Max2(0, Min2(r.len - 1, c.pendingIndex[1])))

\* document.querySelector(".litematic-card") on the committed document
measureEffect(c, r) ==
  IF c.rendered.grid /\ Len(c.rendered.ids) > 0
    THEN [c EXCEPT !.measuredCardHeight = Some(CardHeight)]
    ELSE c

tryScrollEffect(c, r) ==
  IF ~Truthy(c.pendingScrollId) THEN c
  ELSE [c EXCEPT !.rafQueue =
          Append(@, [kind |-> "try", target |-> c.pendingScrollId[1], attempts |-> 0])]

\* ------------------------------------------------------------------------
\* Timer and animation-frame callbacks
\* ------------------------------------------------------------------------

\* setTimeout(..., 0) of applyParams
timer0Callback(c) ==
  IF IsNull(c.pendingIndex) THEN [c EXCEPT !.restoringRef = FALSE] ELSE c

\* setTimeout(..., 50) of the restoration and of tryScroll
timer50Callback(c) == [c EXCEPT !.restoringRef = FALSE]

\* requestAnimationFrame callback of the idx === 0 branch
\* the restoration state machine reaches Done (when one is in progress)
Finish(ph) == IF ph = "Idle" THEN "Idle" ELSE "Done"

scrollTopCallback(c) ==
  [ScrollTo(c, 0) EXCEPT !.timer50 = @ + 1, !.phase = Finish(@)]

\* positions of the materialized slice holding [data-entry-id = target]
ElementHits(dom, target) == { i \in 1..Len(dom.ids) : dom.ids[i] = target }

tryScrollFound(c, pos) ==
  [ScrollTo(c, Max2(0, CardTop(c.rendered, pos) - HeaderOffset))
     EXCEPT !.timer50 = @ + 1, !.pendingScrollId = None, !.phase = Finish(@)]

\* tryScroll without the limit on attempts
tryScroll_Unlimited(c, cb) ==
  IF ElementHits(c.rendered, cb.target) # {}
    THEN tryScrollFound(c, MinOfSet(ElementHits(c.rendered, cb.target)))
    ELSE [c EXCEPT !.rafQueue = Append(@, [cb EXCEPT !.attempts = @ + 1])]

tryScroll(c, cb) ==
  IF ElementHits(c.rendered, cb.target) # {}
    THEN tryScrollFound(c, MinOfSet(ElementHits(c.rendered, cb.target)))
    ELSE IF cb.attempts + 1 < MaxAttempts
      THEN [c EXCEPT !.rafQueue = Append(@, [cb EXCEPT !.attempts = @ + 1])]
      ELSE [c EXCEPT !.restoringRef = FALSE, !.phase = Finish(@)]

runCallback(c, cb) ==
  IF cb.kind = "top" THEN scrollTopCallback(c) ELSE tryScroll(c, cb)

\* one animation frame runs the callbacks registered before it, in order
RECURSIVE runFrame(_, _)
runFrame(c, queue) ==
  IF Len(queue) = 0 THEN c ELSE runFrame(runCallback(c, Head(queue)), Tail(queue))

\* ------------------------------------------------------------------------
\* Commit of a render: the effects whose dependencies changed run in order
\* ------------------------------------------------------------------------

\* which dependency lists differ from those of the last commit
Deps(r) ==
  LET listsTouched == (touched \cap ListNames) # {}
      filterDeps   == \/ r.q # rendered.q
                      \/ r.sortKey # rendered.sortKey
                      \/ listsTouched
                      \/ PreviewId(r.preview) # rendered.previewId
      lenChanged   == r.len # rendered.len
      colsChanged  == r.cols # rendered.cols
      rowChanged   == r.approxRowHeight # rendered.approxRowHeight
      \* the filtered memo: entries, searchTerms, the four sets, sortKey
      filteredNew  == \/ "entries" \in touched
                      \/ r.q # rendered.q
                      \/ r.sortKey # rendered.sortKey
                      \/ \E n \in touched \cap ListNames :
                           ~(rendered.listEmpty[n] /\ Len(ListOf(r, n)) = 0)
  IN  [entries     |-> "entries" \in touched,
       push        |-> filterDeps,
       len         |-> lenChanged,
       scroll      |-> filterDeps \/ colsChanged \/ rowChanged,
       restoration |-> lenChanged \/ colsChanged \/ rowChanged,
       measure     |-> lenChanged \/ colsChanged,
       visible     |-> \/ filteredNew
                       \/ r.windowStart # rendered.windowStart
                       \/ r.windowEnd # rendered.windowEnd]

AllDeps ==
  [entries |-> TRUE, push |-> TRUE, len |-> TRUE, scroll |-> TRUE,
   restoration |-> TRUE, measure |-> TRUE, visible |-> TRUE]

\* an effect runs when its dependencies changed
RunIf(changed, Effect(_, _), c, r) == IF changed THEN Effect(c, r) ELSE c

runEffects(c0, r, d) ==
  RunIf(d.visible, tryScrollEffect,
    RunIf(d.measure, measureEffect,
      RunIf(d.restoration, restorationEffect,
        RunIf(d.scroll, handleScroll,
          RunIf(d.len, clampEffect,
            RunIf(d.len, resetEffect,
              RunIf(d.push, pushEffect,
                RunIf(d.entries, pendingPreviewEffect, c0, r), r), r), r), r), r), r), r)

\* the document is laid out from the render; the browser keeps the scroll
\* offset inside the new document
Layout(c, dom) ==
  [c EXCEPT !.rendered = dom,
            !.touched = {},
            !.renderPending = FALSE,
            !.pendingEvent = "none",
            !.step = IF @ = "commit" THEN "recommit" ELSE "commit",
            !.scrollY = Min2(c.scrollY, MaxScrollY(dom))]

Committed(c, r) == Layout(c, Snapshot(r))

\* first render and the mount effects: load(), applyParams(location.search),
\* then every other effect once
mountWith(c, r) ==
  runEffects(applyParams(loadEffect([Committed(c, r) EXCEPT !.mounted = TRUE]),
                         c.history[c.hpos]),
             r, AllDeps)

commitWith(c, r) == runEffects(Committed(c, r), r, Deps(r))

Mount ==
  /\ ~mounted
  /\ Apply(mountWith(Ctx, Render(Ctx)))

Commit ==
  /\ mounted
  /\ ~cancelled
  /\ renderPending
  /\ Apply(commitWith(Ctx, Render(Ctx)))

\* ------------------------------------------------------------------------
\* Catalog fetch
\* ------------------------------------------------------------------------

\* load() storing the catalog whether or not the effect was cleaned up
loadResolved_Uncancelled(c, json) ==
  [c EXCEPT !.entries = Normalize(json),
            !.touched = @ \cup { "entries" },
            !.loading = FALSE]

\* load() after res.json(): if (cancelled) return; setEntries(normalized);
\* finally: if (!cancelled) setLoading(false)
loadResolved(c, json) ==
  IF c.cancelled THEN c
  ELSE [c EXCEPT !.entries = Normalize(json),
                 !.touched = @ \cup { "entries" },
                 !.loading = FALSE]

\* load() without the finally block
loadRejected_StillLoading(c, msg) ==
  IF c.cancelled THEN c ELSE [c EXCEPT !.error = Some(msg)]

\* load() after fetch threw or !res.ok: if (!cancelled) setError(msg);
\* finally: if (!cancelled) setLoading(false)
loadRejected(c, msg) ==
  IF c.cancelled THEN c
  ELSE [c EXCEPT !.error = Some(msg), !.loading = FALSE]

\* the response arrives after the zero-delay timer set while mounting
FetchOk ==
  /\ fetchState = "pending"
  /\ timer0 = 0
  /\ Apply(loadResolved([Ctx EXCEPT !.fetchState = "done"], CatalogJson))

\* the fetch rejects, or the response has a status that is not a success
FetchFail ==
  /\ fetchState = "pending"
  /\ timer0 = 0
  /\ Apply(loadRejected([Ctx EXCEPT !.fetchState = "failed"],
                        "Failed to load litematics"))

\* the component is torn down while the fetch is under way: the cleanup of
\* the load effect sets cancelled, the listeners are removed, React renders
\* no more.  A teardown after the fetch has settled ends the page the same
\* way and leaves nothing to follow.
Unmount ==
  /\ mounted
  /\ ~cancelled
  /\ fetchState = "pending"
  /\ Apply([Ctx EXCEPT !.cancelled = TRUE])

\* ------------------------------------------------------------------------
\* Timers and frames
\* ------------------------------------------------------------------------

\* popstate, input, change and click are discrete events: React renders and
\* commits their updates, the effects included, before the task of the event
\* ends, so before any timer callback; the renders asked for by the mount
\* effects, by scroll and resize events and by effects have no such guarantee
DiscreteEvents == { "popstate", "search", "sort", "facet", "clear", "preview" }

SyncCommitDue == renderPending /\ pendingEvent \in DiscreteEvents

Timer0 ==
  /\ timer0 > 0
  /\ ~SyncCommitDue
  /\ Apply(timer0Callback([Ctx EXCEPT !.timer0 = @ - 1]))

Timer50 ==
  /\ timer50 > 0
  /\ ~SyncCommitDue
  /\ Apply(timer50Callback([Ctx EXCEPT !.timer50 = @ - 1]))

AnimationFrame ==
  /\ Len(rafQueue) > 0
  /\ Apply(runFrame([Ctx EXCEPT !.rafQueue = << >>,
                                !.step = IF @ = "frame" THEN "reframe" ELSE "frame"],
                    rafQueue))

\* ------------------------------------------------------------------------
\* User and browser events.  Scheduling: an event is handled once the page is
\* mounted, the previous render has been committed and the zero-delay timer
\* of applyParams has fired (the fetch, too, settles only after it).  A scroll event can come at any such moment (the
\* browser fires it at frame time, before the frame callbacks); input, click,
\* resize and popstate events come between frames, when no frame callback is
\* waiting.  The 50 ms timers and the fetch interleave freely with all of them.
\* ------------------------------------------------------------------------

Ready == mounted /\ ~cancelled /\ ~renderPending /\ timer0 = 0 /\ events < MaxEvents

Idle == Ready /\ Len(rafQueue) = 0

Event(c, kind) ==
  [c EXCEPT !.events = @ + 1, !.lastEvent = kind, !.pendingEvent = kind]

SetList(c, n, value) ==
  LET c1 == CASE n = "vInc" -> [c EXCEPT !.versionIncludes = value]
              [] n = "vExc" -> [c EXCEPT !.versionExcludes = value]
              [] n = "aInc" -> [c EXCEPT !.authorIncludes = value]
              [] n = "aExc" -> [c EXCEPT !.authorExcludes = value]
  IN  [c1 EXCEPT !.touched = @ \cup { n }]

\* availableVersions / availableAuthors: the values the option list offers
FacetValues(n) ==
  IF n \in { "vInc", "vExc" }
    THEN { entries[i].version : i \in 1..Len(entries) }
    ELSE { entries[i].author : i \in 1..Len(entries) }

\* onChange of the search box
SetSearch ==
  /\ Idle
  /\ \E text \in SearchInputs :
       /\ text # q
       /\ Apply(Event([Ctx EXCEPT !.q = text], "search"))

\* onChange of the sort select
SetSort ==
  /\ Idle
  /\ \E key \in SortKeys :
       /\ key # sortKey
       /\ Apply(Event([Ctx EXCEPT !.sortKey = key], "sort"))

\* onAdd of an AutocompleteBox
AddFacet ==
  /\ Idle
  /\ \E n \in ListNames : \E v \in FacetValues(n) :
       /\ v \notin SeqToSet(ListOf(Ctx, n))
       /\ Apply(Event(SetList(Ctx, n, Append(ListOf(Ctx, n), v)), "facet"))

\* onRemove of a SelectedChip
RemoveFacet ==
  /\ Idle
  /\ \E n \in ListNames : \E v \in SeqToSet(ListOf(Ctx, n)) :
       Apply(Event(SetList(Ctx, n, SelectSeq(ListOf(Ctx, n), LAMBDA x : x # v)), "facet"))

hasFilters ==
  \/ Len(Trim(q)) > 0
  \/ Len(versionIncludes) > 0 \/ Len(versionExcludes) > 0
  \/ Len(authorIncludes) > 0 \/ Len(authorExcludes) > 0

clearFilters(c) ==
  SetList(SetList(SetList(SetList([c EXCEPT !.q = << >>],
    "vInc", << >>), "vExc", << >>), "aInc", << >>), "aExc", << >>)

ClearFilters ==
  /\ Idle
  /\ hasFilters
  /\ Apply(Event(clearFilters(Ctx), "clear"))

\* onPreview of a rendered card that has a render image
OpenPreview ==
  /\ Idle
  /\ \E i \in 1..Len(entries) :
       /\ entries[i].id \in SeqToSet(rendered.ids)
       /\ ~IsNull(entries[i].renderPath)
       /\ Apply(Event([Ctx EXCEPT !.preview = Some(entries[i])], "preview"))

\* onClose of the Lightbox, which is rendered only for an entry with an image
ClosePreview ==
  /\ Idle
  /\ ~IsNull(preview)
  /\ ~IsNull(preview[1].renderPath)
  /\ Apply(Event([Ctx EXCEPT !.preview = None], "preview"))

\* a scroll event: the offset is anywhere the document allows
Scroll ==
  /\ Ready
  /\ \E k \in 0..MaxScrollSteps :
       /\ k * ScrollStep <= MaxScrollY(rendered)
       /\ Apply(Event(handleScroll([Ctx EXCEPT !.scrollY = k * ScrollStep], Closure(Ctx)), "scroll"))

\* handleResize
Resize ==
  /\ Idle
  /\ \E w \in Widths :
       /\ w # innerWidth
       /\ Apply(Event([Ctx EXCEPT !.innerWidth = w, !.cols = getCols(w)], "resize"))

\* back / forward: the browser moves to another history entry, then onPop
PopState ==
  /\ Idle
  /\ \E target \in 1..Len(history) :
       /\ target # hpos
       /\ Apply(Event(applyParams([Ctx EXCEPT !.hpos = target], history[target]), "popstate"))

Next ==
  \/ Mount
  \/ Commit
  \/ FetchOk
  \/ FetchFail
  \/ Unmount
  \/ Timer0
  \/ Timer50
  \/ AnimationFrame
  \/ SetSearch
  \/ SetSort
  \/ AddFacet
  \/ RemoveFacet
  \/ ClearFilters
  \/ OpenPreview
  \/ ClosePreview
  \/ Scroll
  \/ Resize
  \/ PopState

Spec == Init /\ [][Next]_vars

\* ------------------------------------------------------------------------
\* Properties
\* ------------------------------------------------------------------------

\* a step of PopState: the browser has moved to another entry of an unchanged
\* history, and onPop has applied it
Navigated == history' = history /\ hpos' # hpos

\* a restoration is in progress: a navigation decoded a target index and the
\* restoration state machine has not reached Done
InProgress == phase \in { "Restoring", "Locating" }

\* the commit of the render a user event asked for
CommitOf(kinds) == renderPending /\ pendingEvent \in kinds /\ pendingEvent' = "none"

\* a sort key decoded with the default for an absent or unrecognized value
SortOrDefault(sortParam) == DecodeSort(sortParam, NEWEST)

\* C1: after a back/forward navigation to an entry with query string Q has
\* been applied, the search text, the sort key and the four facet lists are
\* the values decoded from Q, an absent or unrecognized key giving its
\* default (empty text, "newest", empty list).
C1_Original ==
  [][Navigated =>
       /\ q' = DecodeSearch(ParamGet(history'[hpos'], "q"))
       /\ sortKey' = SortOrDefault(ParamGet(history'[hpos'], "sort"))
       /\ versionIncludes' = parseListParam(ParamGet(history'[hpos'], "vInc"))
       /\ versionExcludes' = parseListParam(ParamGet(history'[hpos'], "vExc"))
       /\ authorIncludes' = parseListParam(ParamGet(history'[hpos'], "aInc"))
       /\ authorExcludes' = parseListParam(ParamGet(history'[hpos'], "aExc"))]_vars

\* the preview the current history entry names: the catalog entry whose id
\* is the value of its preview key, none when the key is absent
NamedPreview ==
  IF Truthy(ParamGet(history[hpos], "preview"))
    THEN PreviewId(FindPreview(entries, ParamGet(history[hpos], "preview")[1]))
    ELSE None

\* C2: once a back/forward navigation made with the catalog loaded has been
\* applied and committed, the open preview is the entry the target history
\* entry's preview key names, and no preview is open when the key is absent.
C2_Original ==
  (lastEvent = "popstate" /\ pendingEvent = "none" /\ ~renderPending /\ Len(entries) > 0)
    => PreviewId(preview) = NamedPreview

\* the state applyParams decodes, in a session whose sort key is prior, from
\* the query string buildParams encodes the current state into
Decoded(prior) ==
  applyParams([Ctx EXCEPT !.sortKey = prior], buildParams(Closure(Ctx), anchorIndex))

\* C3: decoding the encoding of the current search text, sort key, facet
\* lists, preview id and anchor index yields these values again, whatever the
\* state of the session that decodes.
C3_Original ==
  \A prior \in SortKeys :
    /\ Decoded(prior).q = q
    /\ Decoded(prior).sortKey = sortKey
    /\ Decoded(prior).versionIncludes = versionIncludes
    /\ Decoded(prior).versionExcludes = versionExcludes
    /\ Decoded(prior).authorIncludes = authorIncludes
    /\ Decoded(prior).authorExcludes = authorExcludes
    /\ Decoded(prior).pendingPreviewId = PreviewId(preview)
    /\ Decoded(prior).pendingIndex = Some(anchorIndex)

\* C4: while a restoration is in progress no history write occurs: neither
\* pushState nor replaceState is called.
C4_Original == [][InProgress => lastWrites' = lastWrites]_vars

\* C5: anchorIndex has a single writer at a time: while a restoration is in
\* progress only the restoration step writes anchorIndex and windowStart, so
\* the scroll handler writes neither of them.
C5_Original == [][InProgress => "scroll" \notin writers']_vars

\* The steps of Commit, AnimationFrame, Timer0, Timer50 and of the fetch,
\* each told by its guard and by what only it does to the state: under Spec a
\* step satisfies one of these exactly when it is a step of that action, and
\* the guard is the action's.
CommitStep ==
  /\ mounted /\ ~cancelled /\ renderPending
  /\ step' = IF step = "commit" THEN "recommit" ELSE "commit"

FrameStep ==
  /\ Len(rafQueue) > 0
  /\ step' = IF step = "frame" THEN "reframe" ELSE "frame"

Timer0Step ==
  /\ timer0 > 0
  /\ ~SyncCommitDue
  /\ timer0' = timer0 - 1

Timer50Step == timer50 > 0 /\ ~SyncCommitDue /\ timer50' = timer50 - 1

FetchStep ==
  /\ fetchState = "pending"
  /\ timer0 = 0
  /\ fetchState' \in { "done", "failed" }

\* the commits of React, the animation frames, the timers and the fetch all
\* happen in the end
FairSpec ==
  /\ Spec
  /\ WF_step(CommitStep)
  /\ WF_step(FrameStep)
  /\ WF_timer0(Timer0Step)
  /\ WF_timer50(Timer50Step)
  /\ WF_fetchState(FetchStep)

\* C6: a navigation that decoded a target index (here on a loaded, non-empty
\* view) is in the end followed by a state in which the restoration is no
\* longer in progress and the restoring flag is cleared.  A run that uses up
\* the user events the model allows counts as getting there, so that only a
\* page that stays as it is with events still to come refutes this.
C6_Original ==
  (InProgress /\ lastEvent = "popstate" /\ rendered.len > 0)
    ~> ((~InProgress /\ ~restoringRef) \/ events = MaxEvents)

\* the user events that change the search text, the sort key, a facet list
\* or the preview
Changes == { "search", "sort", "facet", "clear", "preview" }

\* two query strings that differ at most in the value of idx
SameButIndex(a, b) ==
  ParamSet(a, SCROLL_PARAM_KEY, << >>) = ParamSet(b, SCROLL_PARAM_KEY, << >>)

\* C7: the commit of a change to the search text, the sort key, a facet list
\* or the preview, made while no restoration is in progress and encoded
\* differently from the current history entry, adds exactly one history entry
\* whose query string encodes the new state.
C7_Original ==
  [][(/\ CommitOf(Changes)
      /\ ~InProgress /\ ~restoringRef
      /\ buildParams(Closure(Ctx), anchorIndex) # history[hpos])
     => /\ hpos' = hpos + 1
        /\ Len(history') = hpos + 1
        /\ SubSeq(history', 1, hpos) = SubSeq(history, 1, hpos)
        /\ SameButIndex(history'[hpos'], buildParams(Closure(Ctx), anchorIndex))]_vars

\* no history entry is added or dropped, and no entry but the current one is
\* rewritten
OnlyReplaces ==
  /\ hpos' = hpos
  /\ Len(history') = Len(history)
  /\ \A i \in 1..Len(history) : i # hpos => history'[i] = history[i]

\* the render to commit differs from the committed one in no dependency of
\* the push effect: only the scroll position or the layout changed
OnlyPositionChanged ==
  /\ renderPending
  /\ q = rendered.q
  /\ sortKey = rendered.sortKey
  /\ touched \cap ListNames = {}
  /\ PreviewId(preview) = rendered.previewId

\* a scroll or resize event is being handled
PositionEvent == events' = events + 1 /\ lastEvent' \in { "scroll", "resize" }

\* C8: a change of the scroll position alone never adds a history entry:
\* the handling of a scroll or resize event, and the commit of a render in
\* which only the position or the layout changed, leave the number of history
\* entries and the current index as they are and rewrite at most the current
\* entry.
C8_ScrollOnlyReplaces ==
  [][(PositionEvent \/ OnlyPositionChanged) => OnlyReplaces]_vars

\* a scroll away from the top has rewritten the current entry of a history
\* that already holds several, and its render is committed
C8_Witness ==
  /\ lastEvent = "scroll" /\ pendingEvent = "none" /\ ~renderPending
  /\ anchorIndex > 0
  /\ Len(history) >= 2
  /\ history[hpos] = lastPushedParams
  /\ ParamGet(history[hpos], SCROLL_PARAM_KEY) = Some(NumberToString(anchorIndex))

\* C9: two consecutive outbound writes (pushState or replaceState) never
\* carry the same query string.
C9_NoRepeatedWrite == Len(lastWrites) = 2 => lastWrites[1] # lastWrites[2]

\* the scroll handler has just run after two writes, the last of which is
\* the encoding it computed
C9_Witness ==
  /\ Len(lastWrites) = 2
  /\ lastEvent = "scroll" /\ "scroll" \in writers
  /\ lastWrites[2] = lastPushedParams
  /\ lastPushedParams = buildParams(Closure(Ctx), anchorIndex)

\* C10: in every state with no render to commit, 0 <= windowStart <=
\* windowEnd <= viewLength and windowEnd - windowStart <= WINDOW_SIZE.
C10_Original ==
  (mounted /\ ~renderPending) =>
    /\ 0 <= rendered.windowStart
    /\ rendered.windowStart <= rendered.windowEnd
    /\ rendered.windowEnd <= rendered.len
    /\ rendered.windowEnd - rendered.windowStart <= WINDOW_SIZE

\* the user events that change which entries pass the filter
FilterChanges == { "search", "facet", "clear" }

\* C11: when the commit of a filter change finds the view shorter than the
\* current windowStart, windowStart lies in [0, viewLength] once the effects
\* of that commit have run.
C11_Original ==
  [][(CommitOf(FilterChanges) /\ Len(ViewOf(Ctx)) < windowStart)
       => (0 <= windowStart' /\ windowStart' <= Len(ViewOf(Ctx)))]_vars

\* ------------------------------------------------------------------------
\* The windowing arithmetic on views longer than the window.  LayoutSpec
\* keeps of the page the view length, the column count, the scroll offset,
\* the anchor and the window; the entries themselves play no part in it.
\* ------------------------------------------------------------------------

\* the longest view
MaxViewLength == 402

ViewLengths == { 1, 10, 200, 201, 250, MaxViewLength }

\* the rows a scroll can bring to the top edge of the viewport
MaxRowStep == 5

RowStep == 25

\* what a render with this view length, column count and window puts on
\* screen
LayoutDom(len, c, h, start) ==
  [EmptyDom EXCEPT
     !.len = len, !.cols = c, !.approxRowHeight = h,
     !.windowStart = start, !.windowEnd = WindowEnd(len, start),
     !.grid = (len > 0),
     !.topSpacer = TopSpacer(start, c, h),
     !.bottomSpacer = BottomSpacer(len, WindowEnd(len, start), c, h)]

LayoutUnchanged ==
  UNCHANGED << entries, loading, error, q, versionIncludes, versionExcludes,
               authorIncludes, authorExcludes, sortKey, preview,
               measuredCardHeight, pendingPreviewId, pendingIndex,
               pendingScrollId, restoringRef, lastPushedParams, history, hpos,
               innerWidth, timer0, timer50, rafQueue, fetchState, mounted, cancelled,
               renderPending, touched, phase, events, lastEvent, pendingEvent,
               writers, lastWrites, step, pool >>

LayoutInit ==
  /\ entries = << >> /\ loading = FALSE /\ error = None
  /\ q = << >>
  /\ versionIncludes = << >> /\ versionExcludes = << >>
  /\ authorIncludes = << >> /\ authorExcludes = << >>
  /\ sortKey = NEWEST /\ preview = None
  /\ windowStart = 0 /\ anchorIndex = 0 /\ scrollY = 0
  /\ measuredCardHeight = Some(CardHeight)
  /\ cols \in 1..4
  /\ pendingPreviewId = None /\ pendingIndex = None /\ pendingScrollId = None
  /\ restoringRef = FALSE /\ lastPushedParams = << >>
  /\ history = << << >> >> /\ hpos = 1
  /\ innerWidth = InitialWidth
  /\ timer0 = 0 /\ timer50 = 0 /\ rafQueue = << >>
  /\ fetchState = "done" /\ mounted = TRUE /\ cancelled = FALSE
  /\ renderPending = FALSE
  /\ touched = {}
  /\ \E len \in ViewLengths :
       rendered = LayoutDom(len, cols, ApproxRowHeight(measuredCardHeight), 0)
  /\ phase = "Idle" /\ events = 0
  /\ lastEvent = "none" /\ pendingEvent = "none"
  /\ writers = {} /\ lastWrites = << >> /\ step = "other"
  /\ pool = PoolIdle

\* the anchor and the window handleScroll sets for a scroll offset, and the
\* render with them
LayoutAt(y, c) ==
  /\ scrollY' = y
  /\ cols' = c
  /\ anchorIndex' = ScrollAnchor(y, rendered, [rendered EXCEPT !.cols = c])
  /\ windowStart' = WindowStartFor(anchorIndex', c)
  /\ rendered' = LayoutDom(rendered.len, c, rendered.approxRowHeight, windowStart')
  /\ LayoutUnchanged

\* a scroll that brings a row of the view to the top edge of the viewport
LayoutScroll ==
  \E k \in 0..MaxRowStep :
    /\ k * RowStep * cols < rendered.len
    /\ LayoutAt(GridTop - HeaderOffset + k * RowStep * rendered.approxRowHeight, cols)

\* a resize to another column count: the scroll effect runs handleScroll again
LayoutResize ==
  \E c \in 1..4 : c # cols /\ LayoutAt(scrollY, c)

\* the restoration effect for a target index above 0
LayoutRestore ==
  \E idx \in 1..(rendered.len - 1) :
    /\ idx \in { 1, 7, 57, 58, 199, 200, 301 }
    /\ anchorIndex' = idx
    /\ windowStart' = WindowStartFor(idx, cols)
    /\ rendered' = LayoutDom(rendered.len, cols, rendered.approxRowHeight, windowStart')
    /\ UNCHANGED << scrollY, cols >>
    /\ LayoutUnchanged

LayoutNext ==
  \/ LayoutScroll
  \/ LayoutResize
  \/ LayoutRestore

LayoutSpec == LayoutInit /\ [][LayoutNext]_vars

\* rows of the grid as rendered: the rows the two spacers stand for and the
\* rows of the materialized cards
RenderedRows ==
  TopRows(rendered.windowStart, rendered.cols)
    + CeilDiv(rendered.windowEnd - rendered.windowStart, rendered.cols)
    + BottomRows(rendered.len, rendered.windowEnd, rendered.cols)

\* C12: the spacers preserve the total scrollable height: the rows of the two
\* spacers and of the materialized slice add up to the rows of the full view,
\* ceil(viewLength / columns).
C12_Original == RenderedRows = CeilDiv(rendered.len, rendered.cols)

\* the render to commit differs from the committed one in the column count
\* or in the row height, and in nothing the view or the push effect depends on
LayoutChanged ==
  /\ OnlyPositionChanged
  /\ "entries" \notin touched
  /\ \/ cols # rendered.cols
     \/ ApproxRowHeight(measuredCardHeight) # rendered.approxRowHeight

\* C13: a change of the column count by itself does not move the anchor:
\* the commit of a resize that changes the layout and nothing else, with no
\* restoration in progress and the scroll offset left as it is, leaves
\* anchorIndex unchanged.
C13_Original ==
  [][(/\ CommitOf({ "resize" }) /\ LayoutChanged
      /\ ~InProgress /\ ~restoringRef
      /\ scrollY' = scrollY)
       => anchorIndex' = anchorIndex]_vars

\* the commit in which the restoration effect takes up a pending target
\* index above 0 (the view is then non-empty)
RestoresAbove0 ==
  /\ CommitStep
  /\ ~IsNull(pendingIndex) /\ IsNull(pendingIndex')
  /\ pendingIndex[1] > 0

\* C14: a restoration with target index t > 0 on a view of length n > 0 and
\* c columns sets anchorIndex = min(t, n - 1) and windowStart =
\* max(0, anchorIndex - BUFFER_ROWS * c), whatever the scroll offset.
C14_Original ==
  [][RestoresAbove0 =>
       /\ anchorIndex' = Min2(pendingIndex[1], Len(ViewOf(Ctx)) - 1)
       /\ windowStart' = Max2(0, anchorIndex' - BUFFER_ROWS * cols)]_vars

\* the target index the current history entry carries
TargetIndex == DecodeIndex(ParamGet(history[hpos], SCROLL_PARAM_KEY))

\* the step in which a restoration with target index 0 reaches Done: it has
\* not been through the element search
DoneAtTop == phase = "Restoring" /\ phase' = "Done" /\ TargetIndex = Some(0)

\* C15: a restoration with target index 0 scrolls to the top, sets no pending
\* scroll target, and reaches Done with anchorIndex = 0 and windowStart = 0,
\* whatever they were before the navigation.
C15_Original ==
  [][DoneAtTop =>
       /\ scrollY' = 0
       /\ IsNull(pendingScrollId')
       /\ anchorIndex' = 0
       /\ windowStart' = 0]_vars

\* the element searches waiting for the next frame: each has made `attempts`
\* lookups so far and makes one more in that frame
Searches(queue) == { i \in 1..Len(queue) : queue[i].kind = "try" }

\* a search makes its last allowed lookup in this frame and misses
Exhausts ==
  /\ FrameStep
  /\ \E i \in Searches(rafQueue) :
       /\ rafQueue[i].attempts = MaxAttempts - 1
       /\ ElementHits(rendered, rafQueue[i].target) = {}

\* C16: an element search makes at most 10 lookups, one per frame; when the
\* 10th misses too the search stops, the restoring flag is cleared and the
\* restoration, if one is in progress, is Done.
C16_LoopBounded ==
  [][/\ \A i \in Searches(rafQueue') : rafQueue'[i].attempts < MaxAttempts
     /\ Exhausts =>
          /\ ~restoringRef'
          /\ ~(phase' \in { "Restoring", "Locating" })
          /\ \A i \in Searches(rafQueue') : rafQueue'[i].attempts < MaxAttempts - 1]_vars

\* a search has given up on the committed document: the frame of its 10th
\* lookup is over, the restoration is Done, the flag is down, and the target
\* it did not find is still there
C16_Witness ==
  /\ phase = "Done" /\ ~restoringRef
  /\ ~renderPending
  /\ step \in { "frame", "reframe" }
  /\ Len(rafQueue) = 0 /\ timer50 = 0
  /\ Truthy(pendingScrollId)
  /\ ElementHits(rendered, pendingScrollId[1]) = {}

\* C17: when a search of the committed document gives up after its last
\* lookup, the pending scroll target is cleared (so that no later change of
\* the materialized slice starts a new search for it).
C17_Original ==
  [][(Exhausts /\ ~renderPending) => IsNull(pendingScrollId')]_vars

\* ------------------------------------------------------------------------
\* The navigation state codec on URLs the page itself never writes.
\* CodecSpec opens the page at hand-made URLs (blank and upper-case search
\* text, unknown keys, lists with stray commas and spaces, idx values that
\* are no numbers, preview ids of no entry) and lets the catalog load and the
\* user scroll and search.
\* ------------------------------------------------------------------------

CodecUrls ==
  { << >>,
    << Param("q", << " " >>), Param("sort", << "z", "z" >>),
       Param(SCROLL_PARAM_KEY, << "x" >>) >>,
    << Param("q", << " " >>), Param("sort", OLDEST) >>,
    << Param("foo", << "1" >>),
       Param("vInc", << " ", "1", " ", ",", ",", "2", ",", " " >>),
       Param("aExc", << "," >>) >>,
    << Param("q", << " ", "b" >>), Param("vExc", << "2", " " >>),
       Param(SCROLL_PARAM_KEY, << "1", "z" >>) >>,
    << Param("aInc", << "x", ",", "y" >>), Param(SCROLL_PARAM_KEY, << >>) >>,
    << Param("preview", << "B", "a", "-", "0" >>), Param("sort", AZ) >>,
    << Param("q", << "B", " ", " ", "s" >>), Param("vInc", << "1", ",", "2" >>),
       Param("vExc", << "2" >>) >>,
    << Param("q", << "s", " ", "1" >>), Param("aInc", << "x", ",", "y" >>),
       Param("aExc", << "y" >>), Param(SCROLL_PARAM_KEY, << "2" >>) >>,
    << Param("preview", << "z", "-", "9" >>) >>,
    << Param("preview", << "z" >>), Param(SCROLL_PARAM_KEY, << "4" >>) >> }

CodecInit == InitAt(CodecUrls)

CodecNext ==
  \/ Mount
  \/ Commit
  \/ FetchOk
  \/ Timer0
  \/ Timer50
  \/ AnimationFrame
  \/ Scroll
  \/ SetSearch

CodecSpec == CodecInit /\ [][CodecNext]_vars

HasKey(sp, key) == ~IsNull(ParamGet(sp, key))

\* the step writes a query string to the history
Writes == lastWrites' # lastWrites

\* the query string written last
Written(log) == log[Len(log)]

NonBlank(s) == \E i \in 1..Len(s) : ~IsSpace(s[i])

\* C18: a query string written by outbound sync has the key q exactly when
\* the search text is non-blank, sort exactly when the sort order is not
\* newest, each of vInc, vExc, aInc, aExc exactly when its list is non-empty,
\* preview exactly when a preview is open, and always idx with the value
\* max(0, anchorIndex).
C18_Encoding ==
  [][Writes =>
       /\ HasKey(Written(lastWrites'), "q") <=> NonBlank(q)
       /\ HasKey(Written(lastWrites'), "sort") <=> sortKey # NEWEST
       /\ \A n \in ListNames :
            HasKey(Written(lastWrites'), n) <=> Len(ListOf(Ctx, n)) > 0
       /\ HasKey(Written(lastWrites'), "preview") <=> ~IsNull(preview)
       /\ ParamGet(Written(lastWrites'), SCROLL_PARAM_KEY)
            = Some(NumberToString(Max2(0, anchorIndex')))]_vars

\* a query string has been written while the search text is blank but not
\* empty, the sort order is not the default and the anchor is not 0
C18_Witness ==
  /\ lastWrites # << >>
  /\ q = << " " >>
  /\ sortKey = OLDEST
  /\ anchorIndex > 0
  /\ Written(lastWrites) = history[hpos]
  /\ ~HasKey(history[hpos], "q")

\* the step that mounts the page and decodes the URL it was opened at
Decodes == ~mounted /\ mounted'

KnownKeys == { "q", "sort", "preview", SCROLL_PARAM_KEY } \cup ListNames

KnownOnly(sp) == SelectSeq(sp, LAMBDA p : p.k \in KnownKeys)

\* the value of a key, the empty string when the key is absent
ValueOf(sp, key) == IF HasKey(sp, key) THEN ParamGet(sp, key)[1] ELSE << >>

IsSeparator(c) == IsSpace(c) \/ c = ","

\* position i of raw holds the first character of a token: no separator, and
\* nothing but spaces between it and the comma (or the start) before it
StartsToken(raw, i) ==
  /\ ~IsSeparator(raw[i])
  /\ \E j \in 0..(i - 1) :
       /\ j = 0 \/ raw[j] = ","
       /\ \A k \in (j + 1)..(i - 1) : IsSpace(raw[k])

RECURSIVE Flatten(_)
Flatten(list) == IF Len(list) = 0 THEN << >> ELSE Head(list) \o Flatten(Tail(list))

\* list holds the comma-separated tokens of raw, trimmed, the empty ones dropped
IsTokens(list, raw) ==
  /\ \A i \in 1..Len(list) :
       /\ Len(list[i]) > 0
       /\ ~IsSpace(list[i][1]) /\ ~IsSpace(list[i][Len(list[i])])
       /\ \A k \in 1..Len(list[i]) : list[i][k] # ","
  /\ Len(list) = Cardinality({ i \in 1..Len(raw) : StartsToken(raw, i) })
  /\ SelectSeq(Flatten(list), LAMBDA c : ~IsSeparator(c))
       = SelectSeq(raw, LAMBDA c : ~IsSeparator(c))

\* the four facet lists after the step
ListsDecoded(sp) ==
  /\ IsTokens(versionIncludes', ValueOf(sp, "vInc"))
  /\ IsTokens(versionExcludes', ValueOf(sp, "vExc"))
  /\ IsTokens(authorIncludes', ValueOf(sp, "aInc"))
  /\ IsTokens(authorExcludes', ValueOf(sp, "aExc"))

\* the restoration target after the step: none for an absent idx, 0 for an
\* idx value that is no number
IndexDecoded(sp) ==
  /\ ~HasKey(sp, SCROLL_PARAM_KEY) => IsNull(pendingIndex')
  /\ (HasKey(sp, SCROLL_PARAM_KEY) /\ IsNull(ParseInt(ValueOf(sp, SCROLL_PARAM_KEY))))
       => pendingIndex' = Some(0)

\* the step leaves the state it would leave had the URL held only known keys
UnknownIgnored(sp) ==
  LET known == [Ctx EXCEPT !.history[hpos] = KnownOnly(sp)]
      c     == mountWith(known, Render(known))
  IN  /\ q' = c.q /\ sortKey' = c.sortKey
      /\ versionIncludes' = c.versionIncludes /\ versionExcludes' = c.versionExcludes
      /\ authorIncludes' = c.authorIncludes /\ authorExcludes' = c.authorExcludes
      /\ pendingPreviewId' = c.pendingPreviewId /\ pendingIndex' = c.pendingIndex
      /\ restoringRef' = c.restoringRef

\* C19: decoding a URL tolerates malformed input: unknown keys are ignored,
\* an idx value that does not parse as a number gives the restoration target
\* 0, an absent idx gives no restoration target, and each facet list is the
\* comma-separated tokens of its key, trimmed, with the empty tokens dropped.
C19_Original ==
  [][Decodes =>
       /\ UnknownIgnored(history[hpos])
       /\ IndexDecoded(history[hpos])
       /\ ListsDecoded(history[hpos])]_vars

\* the text the search terms are looked up in
Haystack(e) ==
  ToLowerCase(e.file \o << " " >> \o e.author \o << " " >> \o e.version
              \o << " " >> \o e.size)

\* positions i..j of s hold a term: a maximal run of characters that are
\* no white space
IsTerm(s, i, j) ==
  /\ i <= j
  /\ \A k \in i..j : ~IsSpace(s[k])
  /\ i = 1 \/ IsSpace(s[i - 1])
  /\ j = Len(s) \/ IsSpace(s[j + 1])

MatchesAllTerms(e) ==
  \A i, j \in 1..Len(q) :
    IsTerm(q, i, j) => Includes(Haystack(e), ToLowerCase(SubSeq(q, i, j)))

Excluded(e) ==
  \/ e.version \in SeqToSet(versionExcludes)
  \/ e.author \in SeqToSet(authorExcludes)

Included(e) ==
  /\ Len(versionIncludes) > 0 => e.version \in SeqToSet(versionIncludes)
  /\ Len(authorIncludes) > 0 => e.author \in SeqToSet(authorIncludes)

Accepted(e) == ~Excluded(e) /\ Included(e) /\ MatchesAllTerms(e)

AcceptedIds == { entries[i].id : i \in { k \in 1..Len(entries) : Accepted(entries[k]) } }

\* a value is in the include and in the exclude list of the entry's facet
InBoth(e) ==
  \/ e.version \in SeqToSet(versionIncludes) \cap SeqToSet(versionExcludes)
  \/ e.author \in SeqToSet(authorIncludes) \cap SeqToSet(authorExcludes)

\* the catalog is loaded and what is on screen is the render of the state
Settled == mounted /\ ~renderPending /\ ~loading

\* C20: once the render is committed, the view holds exactly the entries
\* whose version and author are in no exclude list and in each non-empty
\* include list of their facet and whose text contains every search term,
\* in lower case; an entry whose value is in both the include and the
\* exclude list of a facet is not in the view.
C20_View ==
  Settled =>
    /\ rendered.len = Cardinality(AcceptedIds)
    /\ SeqToSet(rendered.ids) \subseteq AcceptedIds
    /\ rendered.windowStart = 0 => SeqToSet(rendered.ids) = AcceptedIds
    /\ \A i \in 1..Len(entries) :
         InBoth(entries[i]) => entries[i].id \notin SeqToSet(rendered.ids)

\* a committed, non-empty view under a search of two terms, one in upper
\* case, with a version in both lists that rejects an entry
C20_Witness ==
  /\ Settled
  /\ rendered.len > 0
  /\ \E i, j \in 1..Len(q) : IsSpace(q[i]) /\ q[j] # ToLowerCase(q)[j]
  /\ \E i \in 1..Len(entries) : InBoth(entries[i]) /\ Included(entries[i])

\* the entry a rendered card shows
EntryOf(id) == entries[CHOOSE i \in 1..Len(entries) : entries[i].id = id]

\* a comes no later than b in the order of the dictionary
LexLeq(a, b) ==
  \/ Len(a) <= Len(b) /\ \A k \in 1..Len(a) : a[k] = b[k]
  \/ \E p \in 1..Min2(Len(a), Len(b)) :
       /\ \A k \in 1..(p - 1) : a[k] = b[k]
       /\ CharRank(a[p]) < CharRank(b[p])

\* two entries that follow each other on screen are in the order of the sort key
InOrder(a, b) ==
  CASE sortKey = OLDEST -> a.createdAt <= b.createdAt
    [] sortKey = AZ     -> LexLeq(ToLowerCase(a.file), ToLowerCase(b.file))
    [] OTHER            -> a.createdAt >= b.createdAt

\* the two entries of the catalog whose text holds the letter b, dated at
\* the epochs 200 and 100
Epoch200 == << "B", "a", "-", "0" >>

Epoch100 == << "b", "-", "1" >>

\* C21: the committed view is a permutation of the entries that pass the
\* filter (each once, none other), in the order of the sort key: createdAt
\* non-decreasing for oldest, non-increasing for newest, file name ascending
\* without regard to case for az; the entries dated 100 and 200 come as
\* [100, 200] for oldest and as [200, 100] for newest.
C21_Sorted ==
  (Settled /\ rendered.windowStart = 0) =>
    /\ Len(rendered.ids) = rendered.len
    /\ Cardinality(SeqToSet(rendered.ids)) = Len(rendered.ids)
    /\ SeqToSet(rendered.ids) = AcceptedIds
    /\ \A k \in 1..(Len(rendered.ids) - 1) :
         InOrder(EntryOf(rendered.ids[k]), EntryOf(rendered.ids[k + 1]))
    /\ (AcceptedIds = { Epoch100, Epoch200 } /\ sortKey = OLDEST)
         => rendered.ids = << Epoch100, Epoch200 >>
    /\ (AcceptedIds = { Epoch100, Epoch200 } /\ sortKey = NEWEST)
         => rendered.ids = << Epoch200, Epoch100 >>

\* the two entries dated 100 and 200 are on screen, oldest first
C21_Witness ==
  /\ Settled
  /\ sortKey = OLDEST
  /\ rendered.ids = << Epoch100, Epoch200 >>

\* the entry passes the version lists / the author lists
PassesVersionLists(e) ==
  /\ e.version \notin SeqToSet(versionExcludes)
  /\ Len(versionIncludes) > 0 => e.version \in SeqToSet(versionIncludes)

PassesAuthorLists(e) ==
  /\ e.author \notin SeqToSet(authorExcludes)
  /\ Len(authorIncludes) > 0 => e.author \in SeqToSet(authorIncludes)

\* C22: the count shown for an author is the number of catalog entries of
\* that author that pass the version lists and the search text, whatever the
\* author lists hold; the count shown for a version is the number of entries
\* of that version that pass the author lists and the search text, whatever
\* the version lists hold.
C22_Original ==
  Settled =>
    /\ \A a \in FacetValues("aInc") :
         authorOptionCount(Ctx, a)
           = Cardinality({ i \in 1..Len(entries) :
                             /\ entries[i].author = a
                             /\ PassesVersionLists(entries[i])
                             /\ MatchesAllTerms(entries[i]) })
    /\ \A v \in FacetValues("vInc") :
         versionOptionCount(Ctx, v)
           = Cardinality({ i \in 1..Len(entries) :
                             /\ entries[i].version = v
                             /\ PassesAuthorLists(entries[i])
                             /\ MatchesAllTerms(entries[i]) })

\* C23: once the catalog fetch has failed, the error is set, the catalog is
\* empty, loading has ended and the view is empty with windowStart =
\* windowEnd = 0; the committed page shows no grid.
C23_FetchFailure ==
  (fetchState = "failed" /\ ~cancelled) =>
    /\ ~IsNull(error)
    /\ entries = << >>
    /\ ~loading
    /\ Len(ViewOf(Ctx)) = 0
    /\ 0 <= windowStart
    /\ windowStart <= WindowEnd(Len(ViewOf(Ctx)), windowStart)
    /\ WindowEnd(Len(ViewOf(Ctx)), windowStart) = 0
    /\ ~renderPending => (~rendered.grid /\ rendered.len = 0 /\ rendered.windowEnd = 0)

\* the fetch has failed, the page is committed and the user has scrolled and
\* changed a filter since
C23_Witness ==
  /\ fetchState = "failed"
  /\ Settled
  /\ ~rendered.grid
  /\ events > 1
  /\ lastEvent \in { "search", "facet", "sort", "resize" }

\* C24: when the component is torn down before the fetch settles, the later
\* success or failure of the fetch writes nothing: entries, error and
\* loading keep the values they had at teardown.
C24_Abandoned ==
  [][cancelled => (entries' = entries /\ error' = error /\ loading' = loading)]_vars

\* the fetch has succeeded after the teardown and the catalog is still empty
C24_Witness ==
  /\ cancelled
  /\ fetchState = "done"
  /\ entries = << >>
  /\ loading

\* the pending preview id is the id or the file name of no entry of the catalog
StaleId(id) == IsNull(FindPreview(Normalize(CatalogJson), id))

\* the commit that follows the arrival of the catalog
LoadCommit == CommitStep /\ "entries" \in touched /\ Len(entries) > 0

\* C25: the commit that follows the load of the catalog drops a pending
\* preview id that matches no entry, opening no preview and setting no
\* error; a dropped id stays dropped on every later step that decodes no URL,
\* and a preview opens only on the user's click or for a pending id that
\* matches an entry.
C25_StaleDropped ==
  [][/\ (LoadCommit /\ Truthy(pendingPreviewId) /\ StaleId(pendingPreviewId[1]))
          => (IsNull(pendingPreviewId') /\ preview' = preview /\ error' = error)
     /\ (IsNull(pendingPreviewId) /\ mounted /\ ~Navigated)
          => IsNull(pendingPreviewId')
     /\ preview' # preview
          => \/ lastEvent' = "preview" /\ events' = events + 1
             \/ /\ LoadCommit /\ Truthy(pendingPreviewId)
                /\ preview' = FindPreview(entries, pendingPreviewId[1])]_vars

\* the page was opened with a preview id of no entry; the catalog is loaded,
\* the user has searched since, and no preview is open and no id pending
C25_Witness ==
  /\ Settled
  /\ HasKey(history[1], "preview") /\ StaleId(ValueOf(history[1], "preview"))
  /\ Len(entries) > 0
  /\ lastEvent = "search"
  /\ IsNull(preview) /\ IsNull(pendingPreviewId) /\ IsNull(error)

\* one run of the scroll handler at the scroll offset y, from the state c
ScrollRun(c, y) == handleScroll([c EXCEPT !.scrollY = y], Closure(Ctx))

\* the anchor, the window and the history are the same in both states
SamePosition(a, b) ==
  /\ a.anchorIndex = b.anchorIndex
  /\ a.windowStart = b.windowStart
  /\ a.history = b.history /\ a.hpos = b.hpos
  /\ a.lastPushedParams = b.lastPushedParams
  /\ a.lastWrites = b.lastWrites

\* the scroll offsets the committed document allows
Offsets == { k * ScrollStep : k \in { j \in 0..MaxScrollSteps : j * ScrollStep <= MaxScrollY(rendered) } }

\* C26: the scroll handler is idempotent: a second run at the same scroll
\* offset, with the same column count and row height, leaves anchorIndex,
\* windowStart and the URL as the first run left them and writes nothing to
\* the history.
C26_Idempotent ==
  (mounted /\ ~cancelled /\ ~renderPending) =>
    \A y \in Offsets :
      SamePosition(ScrollRun(ScrollRun(Ctx, y), y), ScrollRun(Ctx, y))

\* a committed page with no restoration under way, on which one run of the
\* handler moves the anchor and the window and writes the URL
C26_Witness ==
  /\ Settled /\ ~cancelled /\ ~restoringRef
  /\ \E y \in Offsets :
       /\ ScrollRun(Ctx, y).anchorIndex # anchorIndex
       /\ ScrollRun(Ctx, y).windowStart # windowStart
       /\ ScrollRun(Ctx, y).lastWrites # lastWrites

\* a step that follows a back/forward navigation with no user event since
\* (the navigation itself, its commits, the timers and the frames after it)
AfterNavigation == lastEvent' = "popstate"

C28_Original ==
  (/\ mounted /\ ~InProgress /\ ~restoringRef /\ timer0 = 0
   /\ lastWrites # << >>)
    => lastPushedParams = history[hpos]

InitialTargetPending ==
  /\ mounted /\ ~cancelled
  /\ Len(history) = 1
  /\ ~IsNull(pendingIndex)
  /\ rendered.len = 0

\* the commit that renders a non-empty view for the first time
FirstView == CommitStep /\ rendered.len = 0 /\ Len(ViewOf(Ctx)) > 0

\* the restoration effect has taken up the target t on a view of n entries
Applied(t, n) ==
  IF Max2(0, Min2(n - 1, t)) = 0
    THEN /\ Len(rafQueue') = Len(rafQueue) + 1
         /\ rafQueue'[Len(rafQueue')].kind = "top"
    ELSE /\ anchorIndex' = Min2(n - 1, t)
         /\ windowStart' = Max2(0, anchorIndex' - BUFFER_ROWS * cols)
         /\ phase' = "Locating"

\* C30: a target index decoded from the URL the page was opened at is kept
\* while the view is empty: no step resets windowStart and anchorIndex or
\* drops the target before the view is non-empty, and the commit of the
\* first non-empty view applies the restoration to it.
C30_TargetRetained ==
  [][InitialTargetPending =>
       /\ "reset" \notin writers'
       /\ restoringRef'
       /\ IF FirstView
            THEN /\ IsNull(pendingIndex')
                 /\ Applied(pendingIndex[1], Len(ViewOf(Ctx)))
            ELSE /\ pendingIndex' = pendingIndex
                 /\ anchorIndex' = anchorIndex
                 /\ windowStart' = windowStart]_vars

\* the page was opened at idx=8, the user searched and cleared the search
\* before the catalog came, and the restoration has then put the anchor at 8
C30_Witness ==
  /\ Settled
  /\ Len(history) = 1
  /\ TargetIndex = Some(8)
  /\ events > 0
  /\ IsNull(pendingIndex)
  /\ anchorIndex = 8
  /\ windowStart = Max2(0, 8 - BUFFER_ROWS * cols)
  /\ phase \in { "Locating", "Done" }

\* ------------------------------------------------------------------------
\* asyncPool as a state machine.  PoolSpec runs one invocation: the call,
\* the promises of fn settling in any order, the workers resuming, and the
\* return once every worker has settled.  The page takes no part in it.
\* ------------------------------------------------------------------------

\* the most items in a call
MaxItems == 3

\* the largest limit
MaxLimit == 4

\* limits below 1, between 1 and the number of items, and above it
PoolLimits == -1..MaxLimit

RECURSIVE SeqsUpTo(_, _)
SeqsUpTo(S, n) ==
  IF n = 0 THEN { << >> }
  ELSE SeqsUpTo(S, n - 1) \cup [1..n -> S]

\* the item lists, with equal items among them
PoolItems == SeqsUpTo({ "a", "b" }, MaxItems)

PoolInit == InitAt({ << >> })

AsyncPoolCall ==
  /\ pool.status = "idle"
  /\ \E limit \in PoolLimits, items \in PoolItems :
       pool' = asyncPool(limit, items)
  /\ UNCHANGED pageVars

\* the promise of a call of fn is fulfilled
FnFulfil ==
  /\ pool.status = "running"
  /\ \E j \in 1..Len(pool.calls) :
       /\ pool.calls[j] = "pending"
       /\ pool' = [pool EXCEPT !.calls[j] = "fulfilled"]
  /\ UNCHANGED pageVars

\* the promise of a call of fn is rejected
FnReject ==
  /\ pool.status = "running"
  /\ \E j \in 1..Len(pool.calls) :
       /\ pool.calls[j] = "pending"
       /\ pool' = [pool EXCEPT !.calls[j] = "rejected"]
  /\ UNCHANGED pageVars

\* a worker whose awaited promise has settled runs on
WorkerResume ==
  /\ pool.status = "running"
  /\ \E k \in 1..Len(pool.workers) :
       /\ pool.workers[k].state = "awaiting"
       /\ pool.calls[pool.workers[k].cur + 1] \in { "fulfilled", "rejected" }
       /\ pool' = workResume(pool, k)
  /\ UNCHANGED pageVars

\* Promise.allSettled(workers) is fulfilled and asyncPool returns results
PoolReturn ==
  /\ pool.status = "running"
  /\ \A k \in 1..Len(pool.workers) : pool.workers[k].state # "awaiting"
  /\ pool' = [pool EXCEPT !.status = "returned"]
  /\ UNCHANGED pageVars

PoolNext ==
  \/ AsyncPoolCall
  \/ FnFulfil
  \/ FnReject
  \/ WorkerResume
  \/ PoolReturn

PoolSpec == PoolInit /\ [][PoolNext]_vars

\* the calls of fn in flight: called, and the promise not yet settled
InFlight == { j \in 1..Len(pool.calls) : pool.calls[j] = "pending" }

NoCallRejected == \A j \in 1..Len(pool.calls) : pool.calls[j] # "rejected"

\* C31: at no time are more than max(1, min(limit, items.length)) calls of fn
\* in flight; no index is given to fn twice; and when asyncPool returns and
\* no call was rejected, fn has been called exactly once for every index and
\* results[i] is the value of fn(items[i], i), in whatever order the calls
\* completed.
C31_Pool ==
  /\ Cardinality(InFlight) <=
       (IF pool.limit < Len(pool.items) THEN Max2(1, pool.limit)
        ELSE Max2(1, Len(pool.items)))
  /\ \A j \in 1..Len(pool.called) : pool.called[j] <= 1
  /\ (pool.status = "returned" /\ NoCallRejected) =>
       /\ Len(pool.results) = Len(pool.items)
       /\ \A j \in 1..Len(pool.items) :
            /\ pool.called[j] = 1
            /\ pool.results[j] = << << pool.items[j], j - 1 >> >>

\* a pool of two workers over three items, two of them equal, has returned
\* with no rejection; the second worker took the last index, its first call
\* (index 1) having completed before the call for index 0
C31_Witness ==
  /\ pool.status = "returned"
  /\ pool.limit = 2
  /\ pool.items = << "a", "b", "a" >>
  /\ NoCallRejected
  /\ Len(pool.workers) = 2
  /\ pool.workers[1].cur = 0
  /\ pool.workers[2].cur = 2
  /\ pool.results = << << << "a", 0 >> >>, << << "b", 1 >> >>, << << "a", 2 >> >> >>

====
